---- MODULE Spec2Model ----
(***************************************************************************)
(* Model of fish_population_analysis.py: the FishPopulationAnalyzer object *)
(* (config, data, processed_data), its methods load_data, clean_data,      *)
(* analyze_species, plot_trends and export_data, and the run of main.      *)
(*                                                                         *)
(* A CSV file is a header (sequence of column names) and lines (sequences  *)
(* of text fields).  A DataFrame is [columns, rows]; a cell is a number    *)
(* Num(n), a string Str(s) or the missing value NaN.  The model's numbers  *)
(* are the non-negative integers, written in decimal, with ".0" appended   *)
(* where pandas writes a float64 column.                                   *)
(***************************************************************************)
EXTENDS Integers, Sequences, FiniteSets, TLC

VARIABLES
    files,           \* the file system: path -> CSV file, or None when absent
    config,          \* self.config
    data,            \* self.data
    processed_data,  \* self.processed_data
    ret,             \* outcome of the last call: [op, args, raised, value]
    hist,            \* history: the paths data and processed_data were made
                     \* from, the number of clean_data runs that made
                     \* processed_data from the present data, main's calls
    args,            \* main: the parsed command line
    pc,              \* main: the statement reached
    exit_code        \* main: the process's exit status, None while running

vars == <<files, config, data, processed_data, ret, hist, args, pc, exit_code>>

----------------------------------------------------------------------------
(* Values *)

None == [none |-> TRUE]
NaN == [nan |-> TRUE]
Num(n) == [num |-> n]
Str(s) == [str |-> s]
IsNum(c) == DOMAIN c = {"num"}
IsStr(c) == DOMAIN c = {"str"}
IsNaN(c) == DOMAIN c = {"nan"}

Range(s) == {s[i] : i \in 1..Len(s)}

RECURSIVE SumSeq(_)
SumSeq(s) == IF Len(s) = 0 THEN 0 ELSE Head(s) + SumSeq(Tail(s))

RECURSIVE SelectRows(_, _)
\* boolean indexing frame[mask]: the rows whose mask is true, order kept
SelectRows(rows, mask) ==
    IF Len(rows) = 0 THEN <<>>
    ELSE IF Head(mask) THEN <<Head(rows)>> \o SelectRows(Tail(rows), Tail(mask))
         ELSE SelectRows(Tail(rows), Tail(mask))

RECURSIVE SortedSeq(_)
\* the elements of a finite set of integers in ascending order
SortedSeq(S) ==
    IF S = {} THEN <<>>
    ELSE LET m == CHOOSE x \in S : \A y \in S : x <= y
         IN <<m>> \o SortedSeq(S \ {m})

----------------------------------------------------------------------------
(* Text <-> number conversions of pandas *)

DigitChars == <<"0", "1", "2", "3", "4", "5", "6", "7", "8", "9">>
IsDigit(ch) == \E i \in 1..Len(DigitChars) : DigitChars[i] = ch
DigitVal(ch) == (CHOOSE i \in 1..Len(DigitChars) : DigitChars[i] = ch) - 1

RECURSIVE AllDigits(_)
AllDigits(s) == Len(s) = 0 \/ (IsDigit(SubSeq(s, 1, 1)) /\ AllDigits(Tail(s)))

\* "27.0" -> "27": the text of an integral float
IntPart(s) ==
    IF Len(s) > 2 /\ SubSeq(s, Len(s) - 1, Len(s)) = ".0"
    THEN SubSeq(s, 1, Len(s) - 2)
    ELSE s

IsNumericText(s) == Len(IntPart(s)) > 0 /\ AllDigits(IntPart(s))

RECURSIVE ParseDigits(_)
ParseDigits(s) ==
    IF Len(s) = 0 THEN 0
    ELSE 10 * ParseDigits(SubSeq(s, 1, Len(s) - 1))
         + DigitVal(SubSeq(s, Len(s), Len(s)))

ParseNumber(s) == ParseDigits(IntPart(s))

RECURSIVE FormatInt(_)
FormatInt(n) ==
    IF n < 10 THEN DigitChars[n + 1]
    ELSE FormatInt(n \div 10) \o DigitChars[(n % 10) + 1]

\* pd.to_numeric(column, errors="coerce"), one element
to_numeric(c) ==
    IF IsStr(c)
    THEN IF IsNumericText(c.str) THEN Num(ParseNumber(c.str)) ELSE NaN
    ELSE c

\* the texts pd.read_csv reads as missing (its default na_values)
NaValues == {"", "NA", "N/A", "NaN", "nan", "NULL", "null", "None", "n/a",
             "#N/A", "#NA", "<NA>", "-NaN", "-nan"}

----------------------------------------------------------------------------
(* DataFrames *)

IdVars == <<"Country (Country)", "ASFIS species (ASFIS species)",
            "FAO major fishing area (FAO major fishing area)">>

LongColumns == <<"Country", "Species", "Fishing_Area", "Year", "Population">>

HasColumn(df, name) == \E j \in 1..Len(df.columns) : df.columns[j] = name
ColumnIndex(df, name) == CHOOSE j \in 1..Len(df.columns) : df.columns[j] = name
ColumnCells(df, j) == {df.rows[i][j] : i \in 1..Len(df.rows)}

\* pd.read_csv: a column whose every field is a number or a missing-value
\* text is numeric, otherwise its fields stay strings; missing-value texts
\* are read as NaN in both.
read_csv(f) ==
    LET all == [j \in 1..Len(f.header) |-> j]
        numeric == SelectRows(all, [j \in 1..Len(f.header) |->
                      \A i \in 1..Len(f.lines) :
                          f.lines[i][j] \in NaValues
                          \/ IsNumericText(f.lines[i][j])])
        cell(i, j) ==
            LET t == f.lines[i][j]
            IN IF t \in NaValues THEN NaN
               ELSE IF j \in Range(numeric) THEN Num(ParseNumber(t))
               ELSE Str(t)
    IN [columns |-> f.header,
        rows |-> [i \in 1..Len(f.lines) |->
                    [j \in 1..Len(f.header) |-> cell(i, j)]]]

\* DataFrame.to_csv(path, index=False): NaN is written as the empty field; a
\* numeric column holding NaN is float64 and its numbers are written "n.0".
to_csv(df) ==
    LET all == [j \in 1..Len(df.columns) |-> j]
        float == SelectRows(all, [j \in 1..Len(df.columns) |->
                    /\ \E c \in ColumnCells(df, j) : IsNaN(c)
                    /\ \A c \in ColumnCells(df, j) : ~IsStr(c)])
        field(i, j) ==
            LET c == df.rows[i][j]
            IN IF IsNaN(c) THEN ""
               ELSE IF IsStr(c) THEN c.str
               ELSE IF j \in Range(float) THEN FormatInt(c.num) \o ".0"
               ELSE FormatInt(c.num)
    IN [header |-> df.columns,
        lines |-> [i \in 1..Len(df.rows) |->
                     [j \in 1..Len(df.columns) |-> field(i, j)]]]

\* str.startswith
startswith(s, prefix) ==
    Len(s) >= Len(prefix) /\ SubSeq(s, 1, Len(prefix)) = prefix

\* faulty variant: no column is taken for a flag column
flag_columns_none(df) == {}

\* [col for col in self.data.columns if col.startswith('S')]
flag_columns(df) == {j \in 1..Len(df.columns) : startswith(df.columns[j], "S")}

\* DataFrame.drop(columns=...): the other columns, order kept
drop(df, J) ==
    LET all == [j \in 1..Len(df.columns) |-> j]
        keep == SelectRows(all, [j \in 1..Len(df.columns) |-> j \notin J])
    IN [columns |-> [k \in 1..Len(keep) |-> df.columns[keep[k]]],
        rows |-> [i \in 1..Len(df.rows) |->
                    [k \in 1..Len(keep) |-> df.rows[i][keep[k]]]]]

\* DataFrame.replace(marker, 0): every cell equal to the marker becomes 0
replace(df, marker, value) ==
    [columns |-> df.columns,
     rows |-> [i \in 1..Len(df.rows) |->
                 [j \in 1..Len(df.columns) |->
                     IF df.rows[i][j] = Str(marker) THEN value
                     ELSE df.rows[i][j]]]]

\* faulty variant: only the first configured marker is replaced
replace_markers_first_only(df, markers) ==
    IF Len(markers) = 0 THEN df ELSE replace(df, Head(markers), Num(0))

RECURSIVE replace_markers(_, _)
\* for marker in self.config['missing_value_markers']: replace(marker, 0)
replace_markers(df, markers) ==
    IF Len(markers) = 0 THEN df
    ELSE replace_markers(replace(df, Head(markers), Num(0)), Tail(markers))

\* the columns pd.melt unpivots: those that are not id_vars, order kept
value_vars(df) ==
    LET all == [j \in 1..Len(df.columns) |-> j]
    IN SelectRows(all, [j \in 1..Len(df.columns) |->
                          df.columns[j] \notin Range(IdVars)])

\* pd.melt(df, id_vars=IdVars, var_name="Year", value_name="Population"):
\* one row per (value column, row), value columns outermost
melt(df) ==
    LET N == Len(df.rows)
        vv == value_vars(df)
        id(k) == ColumnIndex(df, IdVars[k])
        row(r) ==
            LET v == vv[((r - 1) \div N) + 1]
                i == ((r - 1) % N) + 1
            IN <<df.rows[i][id(1)], df.rows[i][id(2)], df.rows[i][id(3)],
                 Str(df.columns[v]), df.rows[i][v]>>
    IN [columns |-> <<IdVars[1], IdVars[2], IdVars[3], "Year", "Population">>,
        rows |-> [r \in 1..(N * Len(vv)) |-> row(r)]]
----------------------------------------------------------------------------
(* The methods of FishPopulationAnalyzer, as functions of the fields they    *)
(* read; "raised" is the exception that leaves the method, or "none".        *)

\* the settings _load_config returns when the config file is not found
\* (the keys no method reads are left out)
DefaultConfig ==
    [default_species |-> "FCY",
     missing_value_markers |-> <<".", "NA", "">>]

\* faulty variant: only the first required column is checked
validate_data_first_only(df) ==
    IF ~HasColumn(df, IdVars[1]) THEN "ValueError" ELSE "none"

\* the first required column that is missing raises ValueError
validate_data(df) ==
    IF \E k \in 1..Len(IdVars) : ~HasColumn(df, IdVars[k])
    THEN "ValueError"
    ELSE "none"

\* load_data: self.data is assigned before the validation
load_data(fs, d, file_path) ==
    IF fs[file_path] = None
    THEN [data |-> d, raised |-> "FileNotFoundError"]
    ELSE LET df == read_csv(fs[file_path])
         IN [data |-> df, raised |-> validate_data(df)]

\* faulty variant: the melted table keeps the input's column names
long_table_not_renamed(df) ==
    LET m == melt(df)
    IN [columns |-> m.columns,
        rows |-> [r \in 1..Len(m.rows) |->
                    <<m.rows[r][1], m.rows[r][2], m.rows[r][3],
                      to_numeric(m.rows[r][4]), to_numeric(m.rows[r][5])>>]]

\* the long table of lines 91-102: melt, rename, to_numeric on Year and
\* Population
long_table(df) ==
    LET m == melt(df)
    IN [columns |-> LongColumns,
        rows |-> [r \in 1..Len(m.rows) |->
                    <<m.rows[r][1], m.rows[r][2], m.rows[r][3],
                      to_numeric(m.rows[r][4]), to_numeric(m.rows[r][5])>>]]

\* faulty variant: the table is melted in place (self.data = pd.melt(self.data, ...))
clean_data_melts_in_place(cfg, d, p) ==
    IF d = None
    THEN [data |-> d, processed_data |-> p, raised |-> "AttributeError"]
    ELSE LET dropped == drop(d, flag_columns(d))
         IN IF cfg = None
            THEN [data |-> dropped, processed_data |-> p, raised |-> "TypeError"]
            ELSE IF "missing_value_markers" \notin DOMAIN cfg
            THEN [data |-> dropped, processed_data |-> p, raised |-> "KeyError"]
            ELSE LET replaced == replace_markers(dropped, cfg.missing_value_markers)
                 IN IF \E k \in 1..Len(IdVars) : ~HasColumn(replaced, IdVars[k])
                    THEN [data |-> replaced, processed_data |-> p,
                          raised |-> "KeyError"]
                    ELSE [data |-> melt(replaced),
                          processed_data |-> long_table(replaced),
                          raised |-> "none"]

\* clean_data: self.data is reassigned by the drop and by every replace, so
\* an exception raised later leaves the fields as they were at that point
clean_data(cfg, d, p) ==
    IF d = None
    THEN [data |-> d, processed_data |-> p, raised |-> "AttributeError"]
    ELSE LET dropped == drop(d, flag_columns(d))
         IN IF cfg = None
            THEN [data |-> dropped, processed_data |-> p, raised |-> "TypeError"]
            ELSE IF "missing_value_markers" \notin DOMAIN cfg
            THEN [data |-> dropped, processed_data |-> p, raised |-> "KeyError"]
            ELSE LET replaced == replace_markers(dropped, cfg.missing_value_markers)
                 IN IF \E k \in 1..Len(IdVars) : ~HasColumn(replaced, IdVars[k])
                    THEN [data |-> replaced, processed_data |-> p,
                          raised |-> "KeyError"]
                    ELSE [data |-> replaced,
                          processed_data |-> long_table(replaced),
                          raised |-> "none"]

\* Python truthiness of an optional argument: None, "" and 0 are false
Truthy(a) ==
    IF IsStr(a) THEN a.str # ""
    ELSE IF IsNum(a) THEN a.num # 0
    ELSE FALSE

\* filtered_data of lines 128-138: each filter is applied when its argument
\* is truthy; a comparison with NaN is false
filtered_rows(p, species, country, start_year, end_year) ==
    LET f1 == IF Truthy(species)
              THEN SelectRows(p.rows, [i \in 1..Len(p.rows) |-> p.rows[i][2] = species])
              ELSE p.rows
        f2 == IF Truthy(country)
              THEN SelectRows(f1, [i \in 1..Len(f1) |-> f1[i][1] = country])
              ELSE f1
        f3 == IF Truthy(start_year)
              THEN SelectRows(f2, [i \in 1..Len(f2) |->
                        IsNum(f2[i][4]) /\ f2[i][4].num >= start_year.num])
              ELSE f2
        f4 == IF Truthy(end_year)
              THEN SelectRows(f3, [i \in 1..Len(f3) |->
                        IsNum(f3[i][4]) /\ f3[i][4].num <= end_year.num])
              ELSE f3
    IN f4

\* faulty variant: count is the size of the group, NaN populations included
groupby_agg_size(rows) ==
    LET years == {rows[i][4].num : i \in {k \in 1..Len(rows) : IsNum(rows[k][4])}}
        ys == SortedSeq(years)
        agg(y) ==
            LET g == SelectRows(rows, [i \in 1..Len(rows) |-> rows[i][4] = Num(y)])
                x == SelectRows(g, [i \in 1..Len(g) |-> IsNum(g[i][5])])
                sx == SumSeq([i \in 1..Len(x) |-> x[i][5].num])
            IN <<Num(y), Num(sx), NaN, NaN, Num(Len(g))>>
    IN [columns |-> <<"Year", "sum", "mean", "std", "count">>,
        rows |-> [k \in 1..Len(ys) |-> agg(ys[k])]]

\* groupby("Year")["Population"].agg(['sum','mean','std','count']).reset_index():
\* rows with a NaN Year form no group, groups come in ascending Year, NaN
\* populations are skipped by every aggregate.  mean is the ratio sum/count
\* and std the square root of the ratio
\* (count*sum(x^2) - sum(x)^2) / (count*(count-1)); both are kept as exact
\* ratios, NaN when the denominator is zero.
groupby_agg(rows) ==
    LET years == {rows[i][4].num : i \in {k \in 1..Len(rows) : IsNum(rows[k][4])}}
        ys == SortedSeq(years)
        vals(y) ==
            LET g == SelectRows(rows, [i \in 1..Len(rows) |->
                        rows[i][4] = Num(y) /\ IsNum(rows[i][5])])
            IN [i \in 1..Len(g) |-> g[i][5].num]
        agg(y) ==
            LET x == vals(y)
                n == Len(x)
                sx == SumSeq(x)
                sxx == SumSeq([i \in 1..n |-> x[i] * x[i]])
            IN <<Num(y), Num(sx),
                 IF n = 0 THEN NaN ELSE [ratio |-> <<sx, n>>],
                 IF n < 2 THEN NaN
                 ELSE [sqrt_of_ratio |-> <<n * sxx - sx * sx, n * (n - 1)>>],
                 Num(n)>>
    IN [columns |-> <<"Year", "sum", "mean", "std", "count">>,
        rows |-> [k \in 1..Len(ys) |-> agg(ys[k])]]

\* faulty variant: an empty selection raises instead of being aggregated
analyze_species_empty_raises(p, species, country, start_year, end_year) ==
    IF p = None
       \/ Len(filtered_rows(p, species, country, start_year, end_year)) = 0
    THEN [raised |-> "ValueError", value |-> None]
    ELSE [raised |-> "none",
          value |-> groupby_agg(
                        filtered_rows(p, species, country, start_year, end_year))]

analyze_species(p, species, country, start_year, end_year) ==
    IF p = None
    THEN [raised |-> "ValueError", value |-> None]
    ELSE [raised |-> "none",
          value |-> groupby_agg(
                        filtered_rows(p, species, country, start_year, end_year))]

\* export_data: io_ok is whether the file system accepts the write
export_data(fs, p, output_path, io_ok) ==
    IF p = None THEN [files |-> fs, raised |-> "ValueError"]
    ELSE IF ~io_ok THEN [files |-> fs, raised |-> "OSError"]
    ELSE [files |-> [fs EXCEPT ![output_path] = to_csv(p)], raised |-> "none"]

\* plot_trends: the figure is drawn from whatever rows analyzed_data has (an
\* empty frame draws an empty line); env_ok is whether matplotlib accepts the
\* style and the file system the image
plot_trends(fs, analyzed_data, output_path, env_ok) ==
    IF ~env_ok THEN [files |-> fs, raised |-> "OSError"]
    ELSE [files |-> [fs EXCEPT ![output_path] =
                        [png |-> Len(analyzed_data.rows)]],
          raised |-> "none"]
----------------------------------------------------------------------------
(* Inputs *)

MaxRows == 2       \* lines of the input file of the object-level runs
MainMaxRows == 1   \* lines of the input file of the runs of main

InputPath == "data.csv"
OtherPath == "other.csv"
ExportPath == "processed_data.csv"
PlotPath == "population_trend.png"
Paths == {InputPath, OtherPath, ExportPath, PlotPath}

\* one line of an input file: the field under every column name in use
MkRow(country, species, area, y2000, y2001) ==
    (IdVars[1] :> country) @@ (IdVars[2] :> species) @@ (IdVars[3] :> area)
    @@ ("2000" :> y2000) @@ ("S" :> "E") @@ ("2001" :> y2001)
    @@ ("S.1" :> ".") @@ ("Unit" :> "t")

RowPool ==
    {MkRow("Peru", "FCY", "27", "10", "5"),
     MkRow("Peru", "FCY", "27", "20", "NA"),
     MkRow("Chile", "FCY", ".", ".", "7"),
     MkRow(".", "TUN", "87", "x", "")}

HeaderPool ==
    {IdVars \o <<"2000", "S", "2001", "S.1">>,
     IdVars \o <<"2000", "Unit">>,
     IdVars \o <<"S">>,
     <<IdVars[2], IdVars[3], "2000">>,
     <<IdVars[1], IdVars[3], "2000">>,
     <<IdVars[1], IdVars[2], "2000", "S">>}

\* the file with header h whose lines are the rows rs
FileOf(h, rs) ==
    [header |-> h,
     lines |-> [i \in 1..Len(rs) |-> [j \in 1..Len(h) |-> rs[i][h[j]]]]]

FilesUpTo(n) ==
    {FileOf(h, rs) : h \in HeaderPool, rs \in UNION {[1..k -> RowPool] : k \in 0..n}}

CustomConfig ==
    [default_species |-> "TUN", missing_value_markers |-> <<"x", ".">>]

\* a config file without default_species
PartialConfig == [missing_value_markers |-> <<".">>]

\* a config file without missing_value_markers
NoMarkersConfig == [default_species |-> "FCY"]

\* yaml.safe_load of an empty config file is None
ConfigPool ==
    {DefaultConfig, CustomConfig, PartialConfig, NoMarkersConfig, None}

SpeciesArgs == {None, Str("FCY")}
\* --species of main: absent, a species of the data, a species not in it
MainSpeciesArgs == {None, Str("TUN"), Str("XXX")}
CountryArgs == {None, Str("Peru")}
StartYearArgs == {None, Num(2001)}
EndYearArgs == {None, Num(0), Num(2000)}

NoCall == [op |-> "none", args |-> <<>>, raised |-> "none", value |-> None]
NoPath == ""
NoHist == [data_from |-> NoPath, processed_from |-> NoPath, cleans |-> 0,
           calls |-> <<>>]
NoArgs == [species |-> None, country |-> None,
           start_year |-> None, end_year |-> None]

----------------------------------------------------------------------------
(* The object, called in any order *)

Init ==
    /\ \E f \in FilesUpTo(MaxRows) :
          files = [p \in Paths |-> IF p = InputPath THEN f ELSE None]
    /\ config \in {DefaultConfig, CustomConfig}
    /\ data = None
    /\ processed_data = None
    /\ ret = NoCall
    /\ hist = NoHist
    /\ args = NoArgs
    /\ pc = "api"
    /\ exit_code = None

\* faulty variant: loading a file forgets the table cleaned before
LoadData_resets_processed(file_path) ==
    /\ pc = "api"
    /\ LET r == load_data(files, data, file_path)
       IN /\ data' = r.data
          /\ ret' = [op |-> "load_data", args |-> <<file_path>>,
                     raised |-> r.raised, value |-> None]
          /\ hist' = IF r.raised = "FileNotFoundError" THEN hist
                     ELSE [hist EXCEPT !.data_from = file_path, !.cleans = 0]
          /\ processed_data' = IF r.raised = "FileNotFoundError"
                               THEN processed_data ELSE None
    /\ UNCHANGED <<files, config, args, pc, exit_code>>

LoadData(file_path) ==
    /\ pc = "api"
    /\ LET r == load_data(files, data, file_path)
       IN /\ data' = r.data
          /\ ret' = [op |-> "load_data", args |-> <<file_path>>,
                     raised |-> r.raised, value |-> None]
          /\ hist' = IF r.raised = "FileNotFoundError" THEN hist
                     ELSE [hist EXCEPT !.data_from = file_path, !.cleans = 0]
    /\ UNCHANGED <<files, config, processed_data, args, pc, exit_code>>

CleanData ==
    /\ pc = "api"
    /\ LET r == clean_data(config, data, processed_data)
       IN /\ data' = r.data
          /\ processed_data' = r.processed_data
          /\ ret' = [op |-> "clean_data", args |-> <<>>,
                     raised |-> r.raised, value |-> None]
          /\ hist' = IF r.raised = "none"
                     THEN [hist EXCEPT !.processed_from = hist.data_from,
                                       !.cleans = IF @ = 0 THEN 1 ELSE 2]
                     ELSE hist
    /\ UNCHANGED <<files, config, args, pc, exit_code>>

AnalyzeSpecies(species, country, start_year, end_year) ==
    /\ pc = "api"
    /\ LET r == analyze_species(processed_data, species, country,
                                start_year, end_year)
       IN ret' = [op |-> "analyze_species",
                  args |-> <<species, country, start_year, end_year>>,
                  raised |-> r.raised, value |-> r.value]
    /\ UNCHANGED <<files, config, data, processed_data, hist, args, pc, exit_code>>

ExportData(io_ok) ==
    /\ pc = "api"
    /\ LET r == export_data(files, processed_data, ExportPath, io_ok)
       IN /\ files' = r.files
          /\ ret' = [op |-> "export_data", args |-> <<ExportPath>>,
                     raised |-> r.raised, value |-> None]
    /\ UNCHANGED <<config, data, processed_data, hist, args, pc, exit_code>>

Next ==
    \/ \E file_path \in {InputPath, OtherPath, ExportPath} : LoadData(file_path)
    \/ CleanData
    \/ \E io_ok \in BOOLEAN : ExportData(io_ok)

Spec == Init /\ [][Next]_vars

----------------------------------------------------------------------------
(* Analysis of a loaded and cleaned table, under every combination of filters *)

AnalysisHeaders ==
    {IdVars \o <<"2000", "S", "2001", "S.1">>, IdVars \o <<"2000", "Unit">>}

AnalysisInit ==
    /\ \E f \in {g \in FilesUpTo(MaxRows) : g.header \in AnalysisHeaders} :
          files = [p \in Paths |-> IF p = InputPath THEN f ELSE None]
    /\ config = DefaultConfig
    /\ data = None
    /\ processed_data = None
    /\ ret = NoCall
    /\ hist = NoHist
    /\ args = NoArgs
    /\ pc = "api"
    /\ exit_code = None

AnalysisNext ==
    \/ LoadData(InputPath)
    \/ CleanData
    \/ \E species \in SpeciesArgs, country \in CountryArgs,
          start_year \in StartYearArgs, end_year \in EndYearArgs :
            AnalyzeSpecies(species, country, start_year, end_year)

AnalysisSpec == AnalysisInit /\ [][AnalysisNext]_vars
----------------------------------------------------------------------------
(* The object with two input files, loaded and cleaned in any order *)

FramePool ==
    {FileOf(IdVars \o <<"2000", "S", "2001", "S.1">>,
            <<MkRow("Peru", "FCY", "27", "10", "5")>>),
     FileOf(IdVars \o <<"2000", "Unit">>,
            <<MkRow("Chile", "FCY", "87", ".", "7"),
              MkRow("Peru", "FCY", "27", "20", "NA")>>),
     FileOf(<<IdVars[2], IdVars[3], "2000">>,
            <<MkRow("Peru", "TUN", "27", "x", "")>>)}

FrameInit ==
    /\ \E f \in FramePool, g \in FramePool :
          files = [p \in Paths |-> IF p = InputPath THEN f
                                   ELSE IF p = OtherPath THEN g
                                   ELSE None]
    /\ config = DefaultConfig
    /\ data = None
    /\ processed_data = None
    /\ ret = NoCall
    /\ hist = NoHist
    /\ args = NoArgs
    /\ pc = "api"
    /\ exit_code = None

FrameNext ==
    \/ \E file_path \in {InputPath, OtherPath, ExportPath} : LoadData(file_path)
    \/ CleanData
    \/ \E species \in SpeciesArgs, end_year \in EndYearArgs :
            AnalyzeSpecies(species, None, None, end_year)
    \/ \E io_ok \in BOOLEAN : ExportData(io_ok)

FrameSpec == FrameInit /\ [][FrameNext]_vars

----------------------------------------------------------------------------
(* A run of main, from the construction of the analyzer to the exit *)

ArgPool ==
    [species : MainSpeciesArgs, country : CountryArgs,
     start_year : StartYearArgs, end_year : EndYearArgs]

MainInit ==
    /\ \E f \in FilesUpTo(MainMaxRows) \cup {None} :
          files = [p \in Paths |-> IF p = InputPath THEN f ELSE None]
    /\ config \in ConfigPool
    /\ data = None
    /\ processed_data = None
    /\ ret = NoCall
    /\ hist = NoHist
    /\ args \in ArgPool
    /\ pc = "load_data"
    /\ exit_code = None

\* the run's history with one more call of the try block
Called(h, op, raised) == [h EXCEPT !.calls = Append(@, <<op, raised>>)]

\* faulty variant: the exception is swallowed and the run goes on
After_swallowed(raised, next) == next

\* the statement after a call: the next one, or the except clause
After(raised, next) == IF raised = "none" THEN next ELSE "except"

\* line 226
MainLoadData ==
    /\ pc = "load_data"
    /\ LET r == load_data(files, data, InputPath)
       IN /\ data' = r.data
          /\ ret' = [op |-> "load_data", args |-> <<InputPath>>,
                     raised |-> r.raised, value |-> None]
          /\ pc' = After(r.raised, "clean_data")
          /\ hist' = Called(hist, "load_data", r.raised)
    /\ UNCHANGED <<files, config, processed_data, args, exit_code>>

\* line 227
MainCleanData ==
    /\ pc = "clean_data"
    /\ LET r == clean_data(config, data, processed_data)
       IN /\ data' = r.data
          /\ processed_data' = r.processed_data
          /\ ret' = [op |-> "clean_data", args |-> <<>>,
                     raised |-> r.raised, value |-> None]
          /\ pc' = After(r.raised, "analyze_species")
          /\ hist' = Called(hist, "clean_data", r.raised)
    /\ UNCHANGED <<files, config, args, exit_code>>

\* species = args.species or analyzer.config['default_species']
main_species(a, cfg) ==
    IF Truthy(a.species) THEN [raised |-> "none", value |-> a.species]
    ELSE IF cfg = None THEN [raised |-> "TypeError", value |-> None]
    ELSE IF "default_species" \notin DOMAIN cfg
    THEN [raised |-> "KeyError", value |-> None]
    ELSE [raised |-> "none", value |-> Str(cfg.default_species)]

\* lines 230-236
MainAnalyze ==
    /\ pc = "analyze_species"
    /\ LET s == main_species(args, config)
           r == IF s.raised # "none" THEN s
                ELSE analyze_species(processed_data, s.value, args.country,
                                     args.start_year, args.end_year)
       IN /\ ret' = [op |-> "analyze_species",
                     args |-> <<s.value, args.country,
                                args.start_year, args.end_year>>,
                     raised |-> r.raised, value |-> r.value]
          /\ pc' = After(r.raised, "plot_trends")
          /\ hist' = Called(hist, "analyze_species", r.raised)
    /\ UNCHANGED <<files, config, data, processed_data, args, exit_code>>

\* line 243; ret still holds analyzed_data
MainPlot(env_ok) ==
    /\ pc = "plot_trends"
    /\ LET r == plot_trends(files, ret.value, PlotPath, env_ok)
       IN /\ files' = r.files
          /\ ret' = [ret EXCEPT !.op = "plot_trends", !.raised = r.raised]
          /\ pc' = After(r.raised, "export_data")
          /\ hist' = Called(hist, "plot_trends", r.raised)
    /\ UNCHANGED <<config, data, processed_data, args, exit_code>>

\* line 247
MainExport(io_ok) ==
    /\ pc = "export_data"
    /\ LET r == export_data(files, processed_data, ExportPath, io_ok)
       IN /\ files' = r.files
          /\ ret' = [ret EXCEPT !.op = "export_data", !.raised = r.raised]
          /\ pc' = After(r.raised, "return")
          /\ hist' = Called(hist, "export_data", r.raised)
    /\ UNCHANGED <<config, data, processed_data, args, exit_code>>

\* line 249: main returns and the interpreter exits with status 0
MainReturn ==
    /\ pc = "return"
    /\ pc' = "exit"
    /\ exit_code' = 0
    /\ UNCHANGED <<files, config, data, processed_data, ret, hist, args>>

\* lines 251-253: except Exception: sys.exit(1)
MainExcept ==
    /\ pc = "except"
    /\ pc' = "exit"
    /\ exit_code' = 1
    /\ UNCHANGED <<files, config, data, processed_data, ret, hist, args>>

MainNext ==
    \/ MainLoadData
    \/ MainCleanData
    \/ MainAnalyze
    \/ \E env_ok \in BOOLEAN : MainPlot(env_ok)
    \/ \E io_ok \in BOOLEAN : MainExport(io_ok)
    \/ MainReturn
    \/ MainExcept

MainSpec == MainInit /\ [][MainNext]_vars
----------------------------------------------------------------------------
(* Claims about a run of main (MainSpec) *)

\* the input file is there and its header lacks a required column
InputLacksColumn ==
    /\ files[InputPath] # None
    /\ \E k \in 1..Len(IdVars) : IdVars[k] \notin Range(files[InputPath].header)

\* C1: when the loaded table lacks one of the three required columns,
\* load_data raises the validation error (ValueError), and the run of main
\* goes from there to the except clause: clean_data is never called, so data
\* stays the table as read (no column dropped, no marker replaced) and
\* processed_data stays None.
C1_ValidationBeforeCleaning ==
    InputLacksColumn =>
        /\ data \in {None, read_csv(files[InputPath])}
        /\ processed_data = None
        /\ pc # "load_data" =>
              /\ hist.calls = <<(<<"load_data", "ValueError">>)>>
              /\ pc \in {"except", "exit"}
        /\ pc = "exit" => exit_code = 1

\* a run that ended on the validation error of a table which has a flag
\* column to drop
C1_Witness ==
    /\ InputLacksColumn
    /\ pc = "exit"
    /\ ret.op = "load_data" /\ ret.raised = "ValueError"
    /\ flag_columns(data) # {}
    /\ Len(data.rows) > 0

MainStages ==
    <<"load_data", "clean_data", "analyze_species", "plot_trends", "export_data">>

\* C2: a run of main ends with exit code 0 exactly when every call of the
\* try block (load, clean, analyze, plot, export) returned, and with exit
\* code 1 when one of them raised; the call that raised is the last call of
\* the run, and the calls are made once each, in order.
C2_ExitCode ==
    /\ Len(hist.calls) <= Len(MainStages)
    /\ \A i \in 1..Len(hist.calls) :
          /\ hist.calls[i][1] = MainStages[i]
          /\ i < Len(hist.calls) => hist.calls[i][2] = "none"
    /\ pc = "exit" =>
          /\ exit_code \in {0, 1}
          /\ exit_code = 0 <=>
                /\ Len(hist.calls) = Len(MainStages)
                /\ \A i \in 1..Len(hist.calls) : hist.calls[i][2] = "none"
          /\ exit_code = 1 <=>
                /\ Len(hist.calls) > 0
                /\ hist.calls[Len(hist.calls)][2] # "none"
    /\ pc # "exit" => exit_code = None

\* a run that failed in clean_data and ended with exit code 1
C2_Witness ==
    /\ pc = "exit"
    /\ exit_code = 1
    /\ hist.calls = <<(<<"load_data", "none">>), (<<"clean_data", "KeyError">>)>>
    /\ processed_data = None

\* main has called analyze_species and no row of processed_data survives
\* the filters it passed
NoRowSurvives ==
    /\ Len(hist.calls) >= 3
    /\ main_species(args, config).raised = "none"
    /\ Len(filtered_rows(processed_data, ret.args[1], ret.args[2],
                         ret.args[3], ret.args[4])) = 0

\* C8: when no row survives the filters, analyze_species returns the empty
\* aggregate without raising and main goes on to plot_trends and
\* export_data; after an empty result the only failures are those of the
\* environment (OSError of the plot or of the export), and the run ends with
\* exit code 0 when there is none.
C8_EmptyResultHandled ==
    NoRowSurvives =>
        /\ hist.calls[3] = <<"analyze_species", "none">>
        /\ ret.value # None /\ Len(ret.value.rows) = 0
        /\ ret.op = "analyze_species" => pc = "plot_trends"
        /\ ret.raised \in {"none", "OSError"}
        /\ (ret.op = "plot_trends" /\ ret.raised = "none") =>
              /\ pc = "export_data"
              /\ files[PlotPath] # None
        /\ (pc = "exit" /\ ret.raised = "none") =>
              /\ exit_code = 0
              /\ files[ExportPath] = to_csv(processed_data)

\* a run that filtered a non-empty table by a species it does not hold and
\* ended with exit code 0
C8_Witness ==
    /\ NoRowSurvives
    /\ pc = "exit"
    /\ exit_code = 0
    /\ ret.args[1] = Str("XXX")
    /\ Len(processed_data.rows) > 0
----------------------------------------------------------------------------
(* Claims about load_data, clean_data and export_data (Spec) *)

\* the last call was a clean_data that returned
Cleaned == ret.op = "clean_data" /\ ret.raised = "none"

\* the table as load_data read it, before any cleaning
RawTable == read_csv(files[hist.data_from])

\* the positions of the raw table's columns that are no flag columns
NonFlagColumns(raw) ==
    SelectRows([j \in 1..Len(raw.columns) |-> j],
               [j \in 1..Len(raw.columns) |->
                   ~(Len(raw.columns[j]) > 0 /\ SubSeq(raw.columns[j], 1, 1) = "S")])

\* the positions, among the non-flag columns, of the year columns
YearColumns(raw) ==
    LET nf == NonFlagColumns(raw)
    IN SelectRows([k \in 1..Len(nf) |-> k],
                  [k \in 1..Len(nf) |-> raw.columns[nf[k]] \notin Range(IdVars)])

\* C3: row-count law: after clean_data, processed_data has (rows of the raw
\* table) x (year columns) rows, the year columns being the columns that do
\* not start with 'S' and are not one of the three identifying columns.
C3_RowCountLaw ==
    Cleaned =>
        Len(processed_data.rows)
            = Len(RawTable.rows) * Len(YearColumns(RawTable))

\* a cleaned table of two rows with flag columns and two year columns
C3_Witness ==
    /\ Cleaned
    /\ Len(RawTable.rows) = 2
    /\ Len(YearColumns(RawTable)) = 2
    /\ Len(NonFlagColumns(RawTable)) < Len(RawTable.columns)
    /\ Len(processed_data.rows) = 4

\* C4: cleaning is idempotent: clean_data run again on the object it has
\* cleaned returns without raising and leaves data and processed_data as
\* they are; the flag-column drop and the marker replacement change nothing
\* when applied again.
C4_CleanIdempotent ==
    Cleaned =>
        /\ clean_data(config, data, processed_data)
              = [data |-> data, processed_data |-> processed_data,
                 raised |-> "none"]
        /\ drop(data, flag_columns(data)) = data
        /\ replace_markers(data, config.missing_value_markers) = data

\* clean_data has run twice on a table that had a flag column and held a
\* marker
C4_Witness ==
    /\ Cleaned
    /\ hist.cleans = 2
    /\ Len(NonFlagColumns(RawTable)) < Len(RawTable.columns)
    /\ \E i \in 1..Len(RawTable.rows), j \in 1..Len(RawTable.columns) :
          \E k \in 1..Len(config.missing_value_markers) :
              RawTable.rows[i][j] = Str(config.missing_value_markers[k])
    /\ Len(processed_data.rows) > 0

IsMarker(c) ==
    \E k \in 1..Len(config.missing_value_markers) :
        c = Str(config.missing_value_markers[k])

\* C5: after clean_data no cell of the cleaned table, wide (data) or long
\* (processed_data), in any column, equals a configured marker, and every
\* cell of the table that held a marker holds the number zero.
C5_NoMarkerSurvives ==
    Cleaned =>
        LET raw == RawTable
            nf == NonFlagColumns(raw)
            yc == YearColumns(raw)
            N == Len(raw.rows)
        IN /\ \A i \in 1..Len(data.rows), j \in 1..Len(data.columns) :
                 ~IsMarker(data.rows[i][j])
           /\ \A r \in 1..Len(processed_data.rows), j \in 1..Len(LongColumns) :
                 ~IsMarker(processed_data.rows[r][j])
           /\ \A i \in 1..N, k \in 1..Len(nf) :
                 IsMarker(raw.rows[i][nf[k]]) => data.rows[i][k] = Num(0)
           /\ \A i \in 1..N, v \in 1..Len(yc) :
                 IsMarker(raw.rows[i][nf[yc[v]]]) =>
                     processed_data.rows[(v - 1) * N + i][5] = Num(0)

\* a cleaned table that held a marker in an identifying column and one in a
\* year column
C5_Witness ==
    /\ Cleaned
    /\ HasColumn(RawTable, "2000")
    /\ \E i \in 1..Len(RawTable.rows) :
          /\ IsMarker(RawTable.rows[i][ColumnIndex(RawTable, IdVars[1])])
          /\ IsMarker(RawTable.rows[i][ColumnIndex(RawTable, "2000")])
    /\ \E r \in 1..Len(processed_data.rows) :
          /\ processed_data.rows[r][1] = Num(0)
          /\ processed_data.rows[r][5] = Num(0)

\* the last call was load_data on the file export_data wrote from the
\* present processed_data
ReloadedExport ==
    /\ ret.op = "load_data"
    /\ ret.args = <<ExportPath>>
    /\ processed_data # None
    /\ files[ExportPath] = to_csv(processed_data)

\* C9 as stated: reloading the exported file with load_data succeeds and
\* reproduces the tuples of the long table, every Population numeric or
\* missing.
C9_RoundTripAsStated ==
    ReloadedExport =>
        /\ ret.raised = "none"
        /\ data.rows = processed_data.rows
        /\ \A r \in 1..Len(data.rows) : IsNum(data.rows[r][5]) \/ IsNaN(data.rows[r][5])

\* two cells with the same text: the same value, or a number and the string
\* of its digits
SameText(a, b) ==
    \/ a = b
    \/ IsNum(a) /\ IsStr(b) /\ IsNumericText(b.str) /\ ParseNumber(b.str) = a.num
    \/ IsStr(a) /\ IsNum(b) /\ IsNumericText(a.str) /\ ParseNumber(a.str) = b.num

\* C9 amended: load_data on the exported file reads it into data and then
\* raises the validation error, the header being Country, Species,
\* Fishing_Area, Year, Population; the table it read has the rows of the
\* long table in order, with the same Year and Population (numeric or
\* missing, never a marker) and with Country, Species and Fishing_Area of
\* the same text.
C9_RoundTripAmended ==
    ReloadedExport =>
        /\ ret.raised = "ValueError"
        /\ data.columns = LongColumns
        /\ Len(data.rows) = Len(processed_data.rows)
        /\ \A r \in 1..Len(data.rows) :
              /\ data.rows[r][4] = processed_data.rows[r][4]
              /\ data.rows[r][5] = processed_data.rows[r][5]
              /\ IsNum(data.rows[r][5]) \/ IsNaN(data.rows[r][5])
              /\ ~IsMarker(data.rows[r][5])
              /\ \A j \in 1..3 : SameText(data.rows[r][j], processed_data.rows[r][j])

\* the export of a table with a missing and a zero Population was reloaded
C9_Witness ==
    /\ ReloadedExport
    /\ \E r \in 1..Len(data.rows) : IsNaN(data.rows[r][5])
    /\ \E r \in 1..Len(data.rows) : data.rows[r][5] = Num(0)
    /\ \E r \in 1..Len(data.rows) : IsNum(data.rows[r][4])
----------------------------------------------------------------------------
(* Claims about analyze_species (AnalysisSpec) *)

\* the last call was an analyze_species that returned
Analyzed == ret.op = "analyze_species" /\ ret.raised = "none"

\* the rows the claim selects: every filter that is supplied (not None)
\* restricts, both year bounds inclusive
ClaimedRows(p, species, country, start_year, end_year) ==
    SelectRows(p.rows, [i \in 1..Len(p.rows) |->
        /\ species # None => p.rows[i][2] = species
        /\ country # None => p.rows[i][1] = country
        /\ start_year # None =>
              IsNum(p.rows[i][4]) /\ p.rows[i][4].num >= start_year.num
        /\ end_year # None =>
              IsNum(p.rows[i][4]) /\ p.rows[i][4].num <= end_year.num])

\* C6: analyze_species applies its four filters conjunctively: the rows it
\* aggregates are exactly the rows with Species = species, Country = country,
\* Year >= start_year and Year <= end_year, an absent filter imposing no
\* restriction and every supplied filter restricting.
C6_FiltersConjunctive ==
    Analyzed =>
        LET rows == ClaimedRows(processed_data, ret.args[1], ret.args[2],
                                ret.args[3], ret.args[4])
        IN /\ filtered_rows(processed_data, ret.args[1], ret.args[2],
                            ret.args[3], ret.args[4]) = rows
           /\ ret.value = groupby_agg(rows)

\* the rows that survive the filters of the last call
Survivors ==
    filtered_rows(processed_data, ret.args[1], ret.args[2], ret.args[3],
                  ret.args[4])

RECURSIVE SumOver(_, _)
\* the total of the Population of the rows at the positions I
SumOver(rows, I) ==
    IF I = {} THEN 0
    ELSE LET i == CHOOSE k \in I : TRUE
         IN rows[i][5].num + SumOver(rows, I \ {i})

\* C7: the result of analyze_species has exactly one row per distinct year
\* among the surviving rows, in ascending Year; in each row count is the
\* number of the year's non-missing Population values and sum their total.
C7_OneRowPerYear ==
    Analyzed =>
        LET rows == Survivors
            out == ret.value.rows
            years == {rows[i][4].num : i \in {k \in 1..Len(rows) : IsNum(rows[k][4])}}
            present(y) == {i \in 1..Len(rows) :
                              rows[i][4] = Num(y) /\ IsNum(rows[i][5])}
        IN /\ Len(out) = Cardinality(years)
           /\ {out[k][1] : k \in 1..Len(out)} = {Num(y) : y \in years}
           /\ \A k \in 1..Len(out), l \in 1..Len(out) :
                 k < l => out[k][1].num < out[l][1].num
           /\ \A k \in 1..Len(out) :
                 /\ out[k][5] = Num(Cardinality(present(out[k][1].num)))
                 /\ out[k][2] = Num(SumOver(rows, present(out[k][1].num)))

\* an aggregate of two years, the first summing two values and the second
\* skipping a missing one
C7_Witness ==
    /\ Analyzed
    /\ Len(ret.value.rows) = 2
    /\ ret.value.rows[1][1] = Num(2000) /\ ret.value.rows[1][2] = Num(30)
    /\ ret.value.rows[1][5] = Num(2)
    /\ ret.value.rows[2][1] = Num(2001) /\ ret.value.rows[2][2] = Num(5)
    /\ ret.value.rows[2][5] = Num(1)
    /\ \E i \in 1..Len(Survivors) :
          Survivors[i][4] = Num(2001) /\ IsNaN(Survivors[i][5])
----------------------------------------------------------------------------
(* Claims about the fields each method changes (FrameSpec) *)

\* the long table clean_data makes of the file at a path
CleanOf(file_path) ==
    clean_data(config, read_csv(files[file_path]), None).processed_data

\* what the fields and the last result are, given which file was cleaned last
C10_State ==
    /\ processed_data = IF hist.processed_from = NoPath THEN None
                        ELSE CleanOf(hist.processed_from)
    /\ ret.op = "analyze_species" =>
          IF hist.processed_from = NoPath
          THEN ret.raised = "ValueError"
          ELSE /\ ret.raised = "none"
               /\ ret.value =
                     analyze_species(CleanOf(hist.processed_from), ret.args[1],
                                     ret.args[2], ret.args[3], ret.args[4]).value
    /\ ret.op = "export_data" =>
          IF hist.processed_from = NoPath
          THEN ret.raised = "ValueError" /\ files[ExportPath] = None
          ELSE ret.raised = "none" =>
                  files[ExportPath] = to_csv(CleanOf(hist.processed_from))

\* what a step of each method leaves alone
C10_Step ==
    /\ ret'.op = "load_data" => processed_data' = processed_data
    /\ ret'.op \in {"analyze_species", "export_data"} =>
          data' = data /\ processed_data' = processed_data

\* C10: load_data changes only data, analyze_species and export_data change
\* neither data nor processed_data; so processed_data is always the cleaned
\* table of the file that was loaded when clean_data last returned, whatever
\* was loaded since, analyze_species and export_data give the results of
\* that table, and both raise ValueError while no clean_data has returned.
C10_FrameOfLoadAndReaders == []C10_State /\ [][C10_Step]_vars

\* the other file was loaded after the input file was cleaned, it is valid
\* and its own analysis would differ, and analyze_species has answered
C10_Witness ==
    /\ hist.processed_from = InputPath
    /\ hist.data_from = OtherPath
    /\ Analyzed
    /\ validate_data(data) = "none"
    /\ ret.value # analyze_species(CleanOf(OtherPath), ret.args[1], ret.args[2],
                                   ret.args[3], ret.args[4]).value
====
